---- MODULE Spec2Model ----
(***************************************************************************)
(* Model of the L3MON client manager (src/includes/clientManager.js):      *)
(* the session registry, the command dispatcher with its per-client        *)
(* command queue, and the GPS poll scheduler.                              *)
(*                                                                         *)
(* Everything in the manager runs synchronously on one event loop, so one  *)
(* action of the model is one complete handler call.                       *)
(***************************************************************************)
EXTENDS Integers, Sequences, FiniteSets, TLC

\* ------------------------------------------------------------------------
\* Bounds of the model
\* ------------------------------------------------------------------------
MaxSockets == 3      \* transports that may connect during one run
NumUids == 2         \* size of the range Math.random() is drawn from

ClientIDs == {"a1", "a2"}
SocketIds == 1..MaxSockets
UidRange == 0..(NumUids - 1)

\* ------------------------------------------------------------------------
\* CONST.messageKeys
\* ------------------------------------------------------------------------
messageKeys ==
  [camera |-> "0xCA", files |-> "0xFI", call |-> "0xCL", sms |-> "0xSM",
   mic |-> "0xMI", location |-> "0xLO", contacts |-> "0xCO", wifi |-> "0xWI",
   notification |-> "0xNO", clipboard |-> "0xCB", installed |-> "0xIN",
   permissions |-> "0xPM", gotPermission |-> "0xGP"]

\* Object.values(CONST.messageKeys)
MessageKeyValues == {messageKeys[k] : k \in DOMAIN messageKeys}

\* Command ids outside the catalog that a caller may pass.  The last three
\* are names of members every JavaScript object literal inherits from
\* Object.prototype; validators[commandID] finds them.
OutsideKinds == {"0xZZ", "isPrototypeOf", "toString", "hasOwnProperty"}
AllKinds == MessageKeyValues \cup OutsideKinds

\* ------------------------------------------------------------------------
\* Command payloads: the value of action ("absent" when the key is not
\* in the payload) and the set of the other keys present.
\* ------------------------------------------------------------------------
ActionValues == {"absent", "ls", "dl", "sendSMS", "other"}
FieldNames == {"to", "sms", "path", "sec", "permission"}
Payloads == [action : ActionValues, fields : SUBSET FieldNames]
EmptyPayload == [action |-> "absent", fields |-> {}]

Has(payload, f) == f \in payload.fields

\* _validateSmsCommand: the error string, or "false" for no error
_validateSmsCommand(payload) ==
  IF payload.action = "absent" THEN "SMS Missing action Parameter"
  ELSE IF payload.action = "ls" THEN "false"
  ELSE IF payload.action = "sendSMS" THEN
         IF ~Has(payload, "to") THEN "SMS Missing to Parameter"
         ELSE IF ~Has(payload, "sms") THEN "SMS Missing sms Parameter"
         ELSE "false"
  ELSE "SMS action parameter incorrect"

\* _validateFilesCommand
_validateFilesCommand(payload) ==
  IF payload.action = "absent" THEN "Files Missing action Parameter"
  ELSE IF payload.action \in {"ls", "dl"} THEN
         IF ~Has(payload, "path") THEN "Files Missing path Parameter"
         ELSE "false"
  ELSE "Files action parameter incorrect"

\* validators[commandID] for the four own keys of the validators object
OwnValidatorKeys ==
  {messageKeys.sms, messageKeys.files, messageKeys.mic, messageKeys.gotPermission}

\* validators[commandID] for a key the object literal does not define itself:
\* the lookup falls through to Object.prototype.  Called with no receiver and
\* no argument, isPrototypeOf returns false, toString returns the truthy
\* string "[object Undefined]" and hasOwnProperty throws a TypeError.
InheritedValidator(commandID) ==
  CASE commandID = "isPrototypeOf" -> "false"
    [] commandID = "toString" -> "[object Undefined]"
    [] commandID = "hasOwnProperty" -> "THROW"
    [] OTHER -> "undefined"

\* _validateCommandParams: "false" (valid), an error value, or "THROW" when
\* the call raises instead of invoking its callback
_validateCommandParams(commandID, commandPayload) ==
  IF commandID \in OwnValidatorKeys THEN
    CASE commandID = messageKeys.sms -> _validateSmsCommand(commandPayload)
      [] commandID = messageKeys.files -> _validateFilesCommand(commandPayload)
      [] commandID = messageKeys.mic ->
           IF ~Has(commandPayload, "sec") THEN "Mic Missing sec Parameter" ELSE "false"
      [] commandID = messageKeys.gotPermission ->
           IF ~Has(commandPayload, "permission")
           THEN "GotPerm Missing permission Parameter" ELSE "false"
  ELSE IF InheritedValidator(commandID) # "undefined" THEN InheritedValidator(commandID)
  ELSE IF commandID \in MessageKeyValues THEN "false"
  ELSE "Command ID Not Found"

\* ------------------------------------------------------------------------
\* State
\* ------------------------------------------------------------------------
VARIABLES
  clients,            \* db.maindb 'clients': per id, the record or its absence
  clientConnections,  \* this.clientConnections: id -> socket, 0 for no entry
  ignoreDisconnects,  \* this.ignoreDisconnects: id -> "none" | "false" | "true"
  gpsPollers,         \* this.gpsPollers: id -> period of the running timer, 0 for none
  CommandQue,         \* client db 'CommandQue': id -> sequence of queued commands
  GPSSettings,        \* client db 'GPSSettings'.updateFrequency per id
  sockets,            \* every transport: the id it connected for and whether it is open
  intervals,          \* per id, the periods of the setInterval timers not yet cleared
  logs,               \* per id, the logs and snapshots of the client store
  lastOp              \* history: the handler that ran last, its arguments and outcome

vars == <<clients, clientConnections, ignoreDisconnects, gpsPollers, CommandQue,
          GPSSettings, sockets, intervals, logs, lastOp>>

NoClient ==
  [exists |-> FALSE, isOnline |-> FALSE, firstSeen |-> 0, dynamicData |-> 0,
   records |-> 0]
NoSocket == [id |-> "none", state |-> "unused"]

\* Values of pollEvery offered to setGpsPollSpeed
PollChoices == {0, 15, 30, 60}

\* The commands the dashboard and the timers submit in the state machine
CmdInputs ==
  { <<messageKeys.location, EmptyPayload>>,
    <<messageKeys.camera, EmptyPayload>>,
    <<messageKeys.mic, [action |-> "absent", fields |-> {"sec"}]>>,
    <<messageKeys.mic, EmptyPayload>>,
    <<"0xZZ", EmptyPayload>>,
    <<"hasOwnProperty", EmptyPayload>> }

Op(op, id, kind, payload, result, cb, emitted) ==
  [op |-> op, id |-> id, kind |-> kind, payload |-> payload, result |-> result,
   cb |-> cb, emitted |-> emitted]

\* What a client's store holds before anything was written to it (the
\* defaults of db.clientdb): an empty queue, polling switched off, empty
\* logs and empty snapshots
clientdbDefaults ==
  [CommandQue |-> <<>>, updateFrequency |-> 0,
   CallData |-> <<>>, SMSData |-> <<>>, contacts |-> <<>>, notificationLog |-> <<>>,
   wifiNow |-> <<>>, wifiLog |-> <<>>, enabledPermissions |-> <<>>, apps |-> <<>>]

\* The log and snapshot collections of a fresh client store
EmptyLogs ==
  [CallData |-> clientdbDefaults.CallData, SMSData |-> clientdbDefaults.SMSData,
   contacts |-> clientdbDefaults.contacts,
   notificationLog |-> clientdbDefaults.notificationLog,
   wifiNow |-> clientdbDefaults.wifiNow, wifiLog |-> clientdbDefaults.wifiLog,
   enabledPermissions |-> clientdbDefaults.enabledPermissions,
   apps |-> clientdbDefaults.apps]

\* constructor(): empty maps, no client known
Init ==
  /\ clients = [c \in ClientIDs |-> NoClient]
  /\ clientConnections = [c \in ClientIDs |-> 0]
  /\ ignoreDisconnects = [c \in ClientIDs |-> "none"]
  /\ gpsPollers = [c \in ClientIDs |-> 0]
  /\ CommandQue = [c \in ClientIDs |-> clientdbDefaults.CommandQue]
  /\ GPSSettings = [c \in ClientIDs |-> clientdbDefaults.updateFrequency]
  /\ sockets = [s \in SocketIds |-> NoSocket]
  /\ intervals = [c \in ClientIDs |-> <<>>]
  /\ logs = [c \in ClientIDs |-> EmptyLogs]
  /\ lastOp = Op("init", "none", "none", EmptyPayload, "none", 0, <<>>)

\* ------------------------------------------------------------------------
\* Command dispatch
\* ------------------------------------------------------------------------
\* existingTypes looking at the first entry only
existingTypesFirstOnly(q) == IF Len(q) = 0 THEN {} ELSE {q[1].type}

\* commandQueue.value().map(cmd => cmd.type)
existingTypes(q) == {q[i].type : i \in 1..Len(q)}

\* _queueCommand without the look at the types already pending
_queueCommandNoCheck(q, commandID, payload, uid) ==
  [error |-> "false",
   que |-> Append(q, [uid |-> uid, type |-> commandID, payload |-> payload, tx |-> 0])]

\* _queueCommand putting the new entry at the head of the queue
_queueCommandUnshift(q, commandID, payload, uid) ==
  IF \E i \in 1..Len(q) : q[i].type = commandID
  THEN [error |-> "A similar command has already been queued", que |-> q]
  ELSE [error |-> "false",
        que |-> <<[uid |-> uid, type |-> commandID, payload |-> payload, tx |-> 0]>> \o q]

\* _queueCommand: the callback's error and the queue afterwards
_queueCommand(q, commandID, payload, uid) ==
  IF commandID \in existingTypes(q)
  THEN [error |-> "A similar command has already been queued", que |-> q]
  ELSE [error |-> "false",
        que |-> Append(q, [uid |-> uid, type |-> commandID, payload |-> payload,
                           tx |-> 0])]

\* sendCommand that never looks at clientConnections and always queues
sendCommandQueueOnly(exists, conn, q, commandID, payload, quid, uid) ==
  LET error == _validateCommandParams(commandID, payload) IN
  IF error = "THROW" THEN [result |-> "THROW", cb |-> 0, emitted |-> <<>>, que |-> q]
  ELSE IF error # "false" THEN [result |-> error, cb |-> 1, emitted |-> <<>>, que |-> q]
  ELSE IF ~exists THEN
    [result |-> "Client doesn't exist!", cb |-> 1, emitted |-> <<>>, que |-> q]
  ELSE LET r == _queueCommand(q, commandID, payload, uid) IN
    [result |-> IF r.error = "false" THEN "Queued" ELSE r.error,
     cb |-> 1, emitted |-> <<>>, que |-> r.que]

\* sendCommand: result is what the callback receives ("Requested", "Queued"
\* or the error), cb the number of callback invocations, emitted the orders
\* put on a socket, que the client's queue afterwards.  conn is
\* clientConnections.get(clientID), 0 when the map has no entry.  uid is the
\* value Math.random() yields; quid is the uid the payload object already
\* carries when it is a queue entry (-1 for a fresh command).
sendCommand(exists, conn, q, commandID, payload, quid, uid) ==
  LET error == _validateCommandParams(commandID, payload) IN
  IF error = "THROW" THEN [result |-> "THROW", cb |-> 0, emitted |-> <<>>, que |-> q]
  ELSE IF error # "false" THEN [result |-> error, cb |-> 1, emitted |-> <<>>, que |-> q]
  ELSE IF ~exists THEN
    [result |-> "Client doesn't exist!", cb |-> 1, emitted |-> <<>>, que |-> q]
  ELSE IF conn # 0 THEN
    [result |-> "Requested", cb |-> 1,
     emitted |-> <<[sock |-> conn, type |-> commandID, payload |-> payload,
                    uid |-> quid]>>,
     que |-> q]
  ELSE LET r == _queueCommand(q, commandID, payload, uid) IN
    [result |-> IF r.error = "false" THEN "Queued" ELSE r.error,
     cb |-> 1, emitted |-> <<>>, que |-> r.que]

\* remove() that never finds the entry
RemoveNothing(q, uid) == q

\* client.get('CommandQue').remove({ uid }): every entry with that uid goes
RemoveUid(q, uid) == SelectSeq(q, LAMBDA cmd : cmd.uid # uid)

\* history: entry k of the queue has been emitted once more (at most 2 kept)
Transmitted(q, k) == [q EXCEPT ![k].tx = IF @ < 2 THEN @ + 1 ELSE @]

\* clientQueue.forEach(...) of _processCommandQueue.  clientQueue is the
\* stored array itself, and remove() splices that same array, so the loop
\* runs over the indices 1..len of the array as it is when each index is
\* reached: an index past the current end is skipped.
RECURSIVE ForEachQueued(_, _, _, _, _, _)
ForEachQueued(exists, conn, q, k, len, acc) ==
  IF k > len THEN [que |-> q, emitted |-> acc]
  ELSE IF k > Len(q) THEN ForEachQueued(exists, conn, q, k + 1, len, acc)
  ELSE LET command == q[k]
           r == sendCommand(exists, conn, q, command.type, command.payload,
                            command.uid, command.uid)
           sent == IF r.emitted # <<>> THEN Transmitted(r.que, k) ELSE r.que
       IN IF r.result \in {"Requested", "Queued"}
          THEN ForEachQueued(exists, conn, RemoveUid(sent, command.uid),
                             k + 1, len, acc \o r.emitted)
          ELSE ForEachQueued(exists, conn, sent, k + 1, len, acc \o r.emitted)

Reverse(q) == [i \in 1..Len(q) |-> q[Len(q) + 1 - i]]

\* _processCommandQueue walking the queue from its tail
_processCommandQueueBackwards(exists, conn, q) ==
  IF Len(q) = 0 THEN [que |-> q, emitted |-> <<>>]
  ELSE LET r == ForEachQueued(exists, conn, Reverse(q), 1, Len(q), <<>>)
       IN [que |-> Reverse(r.que), emitted |-> r.emitted]

\* _processCommandQueue
_processCommandQueue(exists, conn, q) ==
  IF Len(q) = 0 THEN [que |-> q, emitted |-> <<>>]
  ELSE ForEachQueued(exists, conn, q, 1, Len(q), <<>>)

\* clearInterval(handle): the timer of that handle stops; handle 0 is no timer
clearInterval(ivs, handle) ==
  IF \E i \in 1..Len(ivs) : ivs[i] = handle
  THEN LET k == CHOOSE i \in 1..Len(ivs) :
                  ivs[i] = handle /\ \A j \in 1..(i - 1) : ivs[j] # handle
       IN SubSeq(ivs, 1, k - 1) \o SubSeq(ivs, k + 1, Len(ivs))
  ELSE ivs

\* the registry entry deleted without clearInterval: the timer keeps running
stopPollerForget(poller, ivs) == [poller |-> 0, intervals |-> ivs]

\* if (this.gpsPollers.has(clientID)) { clearInterval(...); delete }: the
\* registry entry and the live timers afterwards
stopPoller(poller, ivs) ==
  [poller |-> 0, intervals |-> IF poller # 0 THEN clearInterval(ivs, poller) ELSE ivs]

\* gpsPoll that starts the new timer without clearing the one registered
gpsPollNoClear(poller, ivs, updateFrequency) ==
  IF updateFrequency > 0
  THEN [poller |-> updateFrequency, intervals |-> Append(ivs, updateFrequency)]
  ELSE [poller |-> 0, intervals |-> ivs]

\* gpsPoll that re-arms a running timer with its old period
gpsPollKeepsPeriod(poller, ivs, updateFrequency) ==
  IF updateFrequency > 0
  THEN LET p == IF poller # 0 THEN poller ELSE updateFrequency
       IN [poller |-> p, intervals |-> Append(stopPoller(poller, ivs).intervals, p)]
  ELSE stopPoller(poller, ivs)

\* gpsPoll: the registry entry (the period of the timer registered for
\* clientID, 0 for none) and the live timers afterwards
gpsPoll(poller, ivs, updateFrequency) ==
  LET cleared == stopPoller(poller, ivs) IN
  IF updateFrequency > 0
  THEN [poller |-> updateFrequency,
        intervals |-> Append(cleared.intervals, updateFrequency)]
  ELSE cleared

\* clientConnect taking every connect for a reconnect
shouldIgnoreAlways(flag) == TRUE

\* clientConnect: shouldIgnore = this.ignoreDisconnects.has(clientID)
shouldIgnoreOnConnect(flag) == flag # "none"

\* The clock reading (new Date()) when socket s connects: connections arrive
\* one after the other, each at a later reading
connectTime(s) == s

\* The clientData the socket server hands over with socket s: every
\* connection brings its own
clientDataOf(s) == s

\* _updateOrCreateClient pushing a record whether or not one is there
_updateOrCreateClientAlwaysPush(cl, clientData, now) ==
  [exists |-> TRUE, isOnline |-> TRUE,
   firstSeen |-> IF cl.exists THEN cl.firstSeen ELSE now,
   dynamicData |-> clientData, records |-> cl.records + 1]

\* _updateOrCreateClient whose update leaves isOnline as it finds it
_updateOrCreateClientKeepsOffline(cl, clientData, now) ==
  IF ~cl.exists
  THEN [exists |-> TRUE, isOnline |-> TRUE, firstSeen |-> now,
        dynamicData |-> clientData, records |-> cl.records + 1]
  ELSE [cl EXCEPT !.dynamicData = clientData]

\* _updateOrCreateClient: a record is pushed with firstSeen = now when find
\* gives nothing, otherwise isOnline and dynamicData are assigned (lastSeen
\* is not kept in the model)
_updateOrCreateClient(cl, clientData, now) ==
  IF ~cl.exists
  THEN [exists |-> TRUE, isOnline |-> TRUE, firstSeen |-> now,
        dynamicData |-> clientData, records |-> cl.records + 1]
  ELSE [cl EXCEPT !.isOnline = TRUE, !.dynamicData = clientData]

\* clientConnect keeping the connection already registered
setConnectionIfAbsent(conn, s) == IF conn = 0 THEN s ELSE conn

\* clientConnect: this.clientConnections.set(clientID, connection)
setConnection(conn, s) == s

\* ------------------------------------------------------------------------
\* Actions: one per handler
\* ------------------------------------------------------------------------

\* clientConnect, called by the socket server for a new socket s with
\* clientData while the clock reads now
\* _setupListeners replaying the queue on the socket registered before it
socketAtReplayPrevious(registered, previous) == previous

\* const socket = this.clientConnections.get(clientID) of _setupListeners and
\* of the sendCommand calls of the replay: clientConnect has already put the
\* new socket in the map, so it is the registered one and not the one the map
\* held when clientConnect was entered
socketAtReplay(registered, previous) == registered

clientConnectWith(s, clientID, clientData, now) ==
  /\ sockets[s].state = "unused"
  /\ \A t \in SocketIds : t < s => sockets[t].state # "unused"
  /\ LET shouldIgnore == shouldIgnoreOnConnect(ignoreDisconnects[clientID])
         conn == setConnection(clientConnections[clientID], s)
         replay == _processCommandQueue(TRUE,
                     socketAtReplay(conn, clientConnections[clientID]),
                     CommandQue[clientID])
         poll == gpsPoll(gpsPollers[clientID], intervals[clientID], GPSSettings[clientID])
     IN /\ clientConnections' = [clientConnections EXCEPT ![clientID] = conn]
        /\ ignoreDisconnects' =
             [ignoreDisconnects EXCEPT ![clientID] = IF shouldIgnore THEN "true" ELSE "false"]
        /\ clients' = [clients EXCEPT ![clientID] =
                          _updateOrCreateClient(@, clientData, now)]
        /\ sockets' = [sockets EXCEPT ![s] = [id |-> clientID, state |-> "open"]]
        /\ CommandQue' = [CommandQue EXCEPT ![clientID] = replay.que]
        /\ gpsPollers' = [gpsPollers EXCEPT ![clientID] = poll.poller]
        /\ intervals' = [intervals EXCEPT ![clientID] = poll.intervals]
        /\ lastOp' = Op("clientConnect", clientID, "none", EmptyPayload, "none", 0,
                        replay.emitted)
        /\ UNCHANGED <<GPSSettings, logs>>

\* clientConnect where every connection brings the same clientData at the
\* same clock reading: the connect of the specifications that do not follow
\* the fields of the client record
clientConnect(s, clientID) == clientConnectWith(s, clientID, 1, 1)

\* clientConnect where every connection brings its own clientData at its own
\* clock reading
clientConnectFresh(s, clientID) ==
  clientConnectWith(s, clientID, clientDataOf(s), connectTime(s))

\* clientDisconnect leaving the poll timer alone
disconnectPollerKept(poller, ivs) == [poller |-> poller, intervals |-> ivs]

\* clientDisconnect: the poll timer of a disconnect that is not ignored
disconnectPoller(poller, ivs) == stopPoller(poller, ivs)

\* clientDisconnect removing the client's record
markOfflineRemoves(cl) == NoClient

\* get('clients').find({ clientID }).assign({ lastSeen, isOnline: false }):
\* the record, when there is one, is marked offline and otherwise kept
markOffline(cl) == IF cl.exists THEN [cl EXCEPT !.isOnline = FALSE] ELSE cl

\* clientDisconnect, the 'disconnect' listener of socket s
clientDisconnect(s) ==
  /\ sockets[s].state = "open"
  /\ LET clientID == sockets[s].id
         shouldIgnore == ignoreDisconnects[clientID] = "true"
         poll == disconnectPoller(gpsPollers[clientID], intervals[clientID])
     IN /\ sockets' = [sockets EXCEPT ![s].state = "closed"]
        /\ ignoreDisconnects' = [ignoreDisconnects EXCEPT ![clientID] = "none"]
        /\ IF shouldIgnore
           THEN UNCHANGED <<clients, clientConnections, gpsPollers, intervals>>
           ELSE /\ clients' = [clients EXCEPT ![clientID] = markOffline(@)]
                /\ clientConnections' = [clientConnections EXCEPT ![clientID] = 0]
                /\ gpsPollers' = [gpsPollers EXCEPT ![clientID] = poll.poller]
                /\ intervals' = [intervals EXCEPT ![clientID] = poll.intervals]
        /\ lastOp' = Op("clientDisconnect", clientID, "none", EmptyPayload,
                        IF shouldIgnore THEN "ignored" ELSE "disconnected", 0, <<>>)
        /\ UNCHANGED <<CommandQue, GPSSettings, logs>>

\* sendCommand called by the dashboard
SendCommand(clientID, commandID, payload) ==
  \E uid \in UidRange :
    LET r == sendCommand(clients[clientID].exists, clientConnections[clientID],
                         CommandQue[clientID], commandID, payload, -1, uid)
    IN /\ r.result # "Queued" => uid = 0
       /\ CommandQue' = [CommandQue EXCEPT ![clientID] = r.que]
       /\ lastOp' = Op("sendCommand", clientID, commandID, payload, r.result, r.cb,
                       r.emitted)
       /\ UNCHANGED <<clients, clientConnections, ignoreDisconnects, gpsPollers,
                      GPSSettings, sockets, intervals, logs>>

\* One tick of a timer gpsPoll started for clientID and nobody cleared
PollTick(clientID) ==
  /\ intervals[clientID] # <<>>
  /\ \E uid \in UidRange :
       LET r == sendCommand(clients[clientID].exists, clientConnections[clientID],
                            CommandQue[clientID], messageKeys.location, EmptyPayload,
                            -1, uid)
       IN /\ r.result # "Queued" => uid = 0
          /\ CommandQue' = [CommandQue EXCEPT ![clientID] = r.que]
          /\ lastOp' = Op("pollTick", clientID, messageKeys.location, EmptyPayload,
                          r.result, r.cb, r.emitted)
          /\ UNCHANGED <<clients, clientConnections, ignoreDisconnects, gpsPollers,
                         GPSSettings, sockets, intervals, logs>>

\* setGpsPollSpeed refusing no interval
pollEveryRejectedNever(pollEvery) == FALSE

\* setGpsPollSpeed: if (pollEvery < 30 && pollEvery !== 0) return cb(error)
pollEveryRejected(pollEvery) == pollEvery < 30 /\ pollEvery # 0

\* setGpsPollSpeed
setGpsPollSpeed(clientID, pollEvery) ==
  /\ IF pollEveryRejected(pollEvery)
     THEN /\ lastOp' = Op("setGpsPollSpeed", clientID, "none", EmptyPayload,
                          "Polling interval must be at least 30 seconds or 0 to disable",
                          1, <<>>)
          /\ UNCHANGED <<GPSSettings, gpsPollers, intervals>>
     ELSE LET poll == gpsPoll(gpsPollers[clientID], intervals[clientID], pollEvery)
          IN /\ GPSSettings' = [GPSSettings EXCEPT ![clientID] = pollEvery]
             /\ gpsPollers' = [gpsPollers EXCEPT ![clientID] = poll.poller]
             /\ intervals' = [intervals EXCEPT ![clientID] = poll.intervals]
             /\ lastOp' = Op("setGpsPollSpeed", clientID, "none", EmptyPayload, "false",
                             1, <<>>)
  /\ UNCHANGED <<clients, clientConnections, ignoreDisconnects, CommandQue, sockets,
                 logs>>

\* remove() given no predicate: the record of every client goes
removeClientAll(cls, clientID) == [c \in DOMAIN cls |-> NoClient]

\* get('clients').remove({ clientID }): the records with that clientID go
removeClient(cls, clientID) == [cls EXCEPT ![clientID] = NoClient]

\* deleteClient leaving the connection entry in the map
deleteConnectionKept(conn) == conn

\* this.clientConnections.delete(clientID): the map has no entry afterwards
deleteConnection(conn) == 0

\* getClient: find({ clientID }).value() || false; found is FALSE for the
\* answer false
getClient(cls, clientID) == [found |-> cls[clientID].exists, client |-> cls[clientID]]

\* getClientList: the clientIDs of the records of the clients collection
getClientList(cls) == {c \in DOMAIN cls : cls[c].exists}

\* getClientListOnline: getClientList().filter(client => client.isOnline)
getClientListOnline(cls) == {c \in getClientList(cls) : cls[c].isOnline}

\* getClientListOffline: getClientList().filter(client => !client.isOnline)
getClientListOffline(cls) == {c \in getClientList(cls) : ~cls[c].isOnline}

\* deleteClient
deleteClient(clientID) ==
  LET poll == stopPoller(gpsPollers[clientID], intervals[clientID]) IN
  /\ clients' = removeClient(clients, clientID)
  /\ clientConnections' = [clientConnections EXCEPT ![clientID] = deleteConnection(@)]
  /\ gpsPollers' = [gpsPollers EXCEPT ![clientID] = poll.poller]
  /\ intervals' = [intervals EXCEPT ![clientID] = poll.intervals]
  /\ lastOp' = Op("deleteClient", clientID, "none", EmptyPayload, "none", 0, <<>>)
  /\ UNCHANGED <<ignoreDisconnects, CommandQue, GPSSettings, sockets, logs>>

\* The handlers run for the clients in C
NextFor(C) ==
  \/ \E s \in SocketIds, c \in C : clientConnect(s, c)
  \/ \E s \in SocketIds : clientDisconnect(s)
  \/ \E c \in C, in \in CmdInputs : SendCommand(c, in[1], in[2])
  \/ \E c \in C : PollTick(c)
  \/ \E c \in C, p \in PollChoices : setGpsPollSpeed(c, p)
  \/ \E c \in C : deleteClient(c)

\* The deep exploration follows one client through every handler
Driven == {"a1"}

Next == NextFor(Driven)

Spec == Init /\ [][Next]_vars

\* ------------------------------------------------------------------------
\* Telemetry: the log-append handlers
\* ------------------------------------------------------------------------
\* A string is a sequence of characters; the character 0 is a blank

\* The call records a client sends: phoneNo and date
CallRecords ==
  {[phoneNo |-> <<1>>, date |-> <<1, 2>>], [phoneNo |-> <<1, 1>>, date |-> <<2>>]}

\* The SMS records a client sends: address and body
SmsRecords ==
  {[address |-> <<1>>, body |-> <<3>>], [address |-> <<1, 1>>, body |-> <<3>>]}

\* The contact records a client sends: phoneNo (blanks allowed) and name
ContactRecords ==
  {[phoneNo |-> <<1, 0, 1>>, name |-> <<4>>], [phoneNo |-> <<1, 1>>, name |-> <<4>>]}

\* The notifications a client sends: key and content
NotificationRecords == {[key |-> <<5>>, content |-> <<6>>]}

\* The longest list one telemetry message carries
MaxBatch == 2

\* The lists of at most MaxBatch records of R
Batches(R) == UNION {[1..n -> R] : n \in 0..MaxBatch}

\* String.prototype.replace(/\s+/g, ''): the string without its blanks
StripBlanks(str) == SelectSeq(str, LAMBDA ch : ch # 0)

\* _createHash: the md5 digest of String(data), one digest per string
_createHash(data) == [md5 |-> data]

\* What a handler does to a record before hashing it: the contacts handler
\* strips the blanks of phoneNo, the others leave the record as it is
prepared(collection, rec) ==
  IF collection = "contacts"
  THEN [rec EXCEPT !.phoneNo = StripBlanks(rec.phoneNo)]
  ELSE rec

\* The string a handler hashes: the two identity fields of the record joined
\* by +
hashInput(collection, rec) ==
  CASE collection = "CallData" -> rec.phoneNo \o rec.date
    [] collection = "SMSData" -> rec.address \o rec.body
    [] collection = "contacts" -> rec.phoneNo \o rec.name
    [] collection = "notificationLog" -> rec.key \o rec.content

\* record.hash = hash: the record as it is pushed
withHash(rec, hash) ==
  [f \in DOMAIN rec \cup {"hash"} |-> IF f = "hash" THEN hash ELSE rec[f]]

\* db.find({ hash }).value() !== undefined
findHash(log, hash) == \E i \in 1..Len(log) : log[i].hash = hash

\* A list element that is null: reading a field of it raises a TypeError
NullRecord == [null |-> TRUE]

\* The body of a handler run on rec raises a TypeError: rec is null, or the
\* contacts handler calls replace on a phoneNo that is not there
throws(collection, rec) ==
  \/ "null" \in DOMAIN rec
  \/ collection = "contacts" /\ "phoneNo" \notin DOMAIN rec

\* The body of a handler for one record: hash, find, push if not found
appendIfNew(collection, log, rec) ==
  IF throws(collection, rec)
  THEN [log |-> log, newCount |-> 0, threw |-> TRUE]
  ELSE LET r == prepared(collection, rec)
           hash == _createHash(hashInput(collection, r))
       IN IF findHash(log, hash)
          THEN [log |-> log, newCount |-> 0, threw |-> FALSE]
          ELSE [log |-> Append(log, withHash(r, hash)), newCount |-> 1, threw |-> FALSE]

RECURSIVE forEachRecord(_, _, _, _)
\* list.forEach(record => ...): the log and newCount after the records of
\* list from the first on; an error raised by the body leaves the loop (the
\* try/catch is around the whole handler)
forEachRecord(collection, log, list, newCount) ==
  IF list = <<>>
  THEN [log |-> log, newCount |-> newCount, threw |-> FALSE]
  ELSE LET r == appendIfNew(collection, log, Head(list))
       IN IF r.threw
          THEN [log |-> log, newCount |-> newCount, threw |-> TRUE]
          ELSE forEachRecord(collection, r.log, Tail(list), newCount + r.newCount)

\* A handler testing every record of the list against the log as it was when
\* the message arrived
listHandlerSnapshot(collection, log, list) ==
  LET hashOf(rec) == _createHash(hashInput(collection, prepared(collection, rec)))
      news == SelectSeq(list, LAMBDA rec : ~findHash(log, hashOf(rec)))
      pushed == [i \in 1..Len(news) |->
                   withHash(prepared(collection, news[i]), hashOf(news[i]))]
  IN [log |-> log \o pushed, newCount |-> Len(news), threw |-> FALSE]

\* The list handlers (call, sms, contacts) on a list that is not empty:
\* newCount = 0, then the forEach
listHandler(collection, log, list) == forEachRecord(collection, log, list, 0)

\* One message of a list handler on socket s: an empty or missing list
\* returns at once, otherwise the loop runs and newCount is logged; an error
\* raised in the loop is caught by the handler and logged instead
ListMessage(op, collection, s, list) ==
  /\ sockets[s].state = "open"
  /\ LET clientID == sockets[s].id
         r == listHandler(collection, logs[clientID][collection], list)
     IN IF list = <<>>
        THEN /\ logs' = logs
             /\ lastOp' = Op(op, clientID, "none", EmptyPayload, "none", 0, <<>>)
        ELSE /\ logs' = [logs EXCEPT ![clientID][collection] = r.log]
             /\ lastOp' = Op(op, clientID, "none", EmptyPayload,
                             IF r.threw THEN "error" ELSE ToString(r.newCount), 0, <<>>)
  /\ UNCHANGED <<clients, clientConnections, ignoreDisconnects, gpsPollers,
                 CommandQue, GPSSettings, sockets, intervals>>

\* _setupCallHandler: the listener for messageKeys.call on socket s
_setupCallHandler(s, callsList) == ListMessage("call", "CallData", s, callsList)

\* _setupSmsHandler: the listener for messageKeys.sms on socket s, data an
\* object with smslist
_setupSmsHandler(s, smslist) == ListMessage("sms", "SMSData", s, smslist)

\* _setupContactsHandler: the listener for messageKeys.contacts on socket s
_setupContactsHandler(s, contactsList) ==
  ListMessage("contacts", "contacts", s, contactsList)

\* _setupNotificationHandler: the listener for messageKeys.notification on
\* socket s; data is one record
_setupNotificationHandler(s, data) ==
  /\ sockets[s].state = "open"
  /\ LET clientID == sockets[s].id
         r == appendIfNew("notificationLog", logs[clientID].notificationLog, data)
     IN /\ logs' = [logs EXCEPT ![clientID].notificationLog = r.log]
        /\ lastOp' = Op("notification", clientID, "none", EmptyPayload,
                        ToString(r.newCount), 0, <<>>)
  /\ UNCHANGED <<clients, clientConnections, ignoreDisconnects, gpsPollers,
                 CommandQue, GPSSettings, sockets, intervals>>

\* Connections, disconnects and telemetry messages of the clients in C
NextIngestFor(C) ==
  \/ \E s \in SocketIds, c \in C : clientConnect(s, c)
  \/ \E s \in SocketIds : clientDisconnect(s)
  \/ \E s \in SocketIds, l \in Batches(CallRecords) : _setupCallHandler(s, l)
  \/ \E s \in SocketIds, l \in Batches(SmsRecords) : _setupSmsHandler(s, l)
  \/ \E s \in SocketIds, l \in Batches(ContactRecords) : _setupContactsHandler(s, l)
  \/ \E s \in SocketIds, d \in NotificationRecords : _setupNotificationHandler(s, d)

NextIngest == NextIngestFor(Driven)

SpecIngest == Init /\ [][NextIngest]_vars

\* ------------------------------------------------------------------------
\* Telemetry lists with colliding and with malformed records
\* ------------------------------------------------------------------------

\* SMS records whose address and body differ but join to the same string:
\* "1" + "23" and "12" + "3"
SmsPairs == [address : {<<1>>, <<1, 2>>}, body : {<<2, 3>>, <<3>>}]

\* getClientDataByPage(clientID, page) without a filter, for the pages that
\* read the store as it is: false when the client has no record, otherwise
\* the collection of the page
getClientDataByPage(cl, store, page) ==
  IF ~cl.exists
  THEN [found |-> FALSE, data |-> <<>>]
  ELSE [found |-> TRUE,
        data |-> CASE page = "sms" -> store.SMSData
                   [] page = "contacts" -> store.contacts
                   [] page = "permissions" -> store.enabledPermissions
                   [] page = "apps" -> store.apps
                   [] page = "wifi" -> store.wifiLog]

\* Connections, disconnects and SMS lists of the clients in C
NextSmsFor(C) ==
  \/ \E s \in SocketIds, c \in C : clientConnect(s, c)
  \/ \E s \in SocketIds : clientDisconnect(s)
  \/ \E s \in SocketIds, l \in Batches(SmsPairs) : _setupSmsHandler(s, l)

NextSms == NextSmsFor(Driven)

SpecSms == Init /\ [][NextSms]_vars

\* Contact lists that may hold a null element or a contact without phoneNo
ContactInputs == ContactRecords \cup {NullRecord, [name |-> <<4>>]}

\* Call lists that may hold a null element
CallInputs == CallRecords \cup {NullRecord}

\* Connections, disconnects, contact lists and call lists of the clients in C
NextMalformedFor(C) ==
  \/ \E s \in SocketIds, c \in C : clientConnect(s, c)
  \/ \E s \in SocketIds : clientDisconnect(s)
  \/ \E s \in SocketIds, l \in Batches(ContactInputs) : _setupContactsHandler(s, l)
  \/ \E s \in SocketIds, l \in Batches(CallInputs) : _setupCallHandler(s, l)

NextMalformed == NextMalformedFor(Driven)

SpecMalformed == Init /\ [][NextMalformed]_vars

\* ------------------------------------------------------------------------
\* Telemetry: the wifi log and the snapshots
\* ------------------------------------------------------------------------

\* The latest reading of the clock (new Date()) in a run
MaxTime == 2

\* The readings of the clock
Times == 1..MaxTime

\* The networks a client reports: SSID and BSSID
Networks == [SSID : {<<7>>, <<8>>}, BSSID : {<<9>>}]

\* dbwifiLog.find({ SSID, BSSID }): the position of the first entry of the
\* network, 0 if there is none
findWifi(log, wifi) ==
  IF \E i \in 1..Len(log) : log[i].SSID = wifi.SSID /\ log[i].BSSID = wifi.BSSID
  THEN CHOOSE i \in 1..Len(log) :
         /\ log[i].SSID = wifi.SSID /\ log[i].BSSID = wifi.BSSID
         /\ \A j \in 1..(i - 1) : ~(log[j].SSID = wifi.SSID /\ log[j].BSSID = wifi.BSSID)
  ELSE 0

\* The forEach body of the wifi handler setting firstSeen on every sighting
wifiUpsertResetsFirstSeen(log, wifi, now) ==
  LET k == findWifi(log, wifi)
      entry == [SSID |-> wifi.SSID, BSSID |-> wifi.BSSID, firstSeen |-> now,
                lastSeen |-> now]
  IN IF k = 0
     THEN [log |-> Append(log, entry), newCount |-> 1]
     ELSE [log |-> [log EXCEPT ![k] = entry], newCount |-> 0]

\* The forEach body of the wifi handler: push the network with firstSeen =
\* lastSeen = now when find gives nothing, otherwise assign lastSeen
wifiUpsert(log, wifi, now) ==
  LET k == findWifi(log, wifi) IN
  IF k = 0
  THEN [log |-> Append(log, [SSID |-> wifi.SSID, BSSID |-> wifi.BSSID,
                             firstSeen |-> now, lastSeen |-> now]),
        newCount |-> 1]
  ELSE [log |-> [log EXCEPT ![k].lastSeen = now], newCount |-> 0]

RECURSIVE forEachWifi(_, _, _, _)
\* data.networks.forEach(wifi => ...)
forEachWifi(log, networks, now, newCount) ==
  IF networks = <<>>
  THEN [log |-> log, newCount |-> newCount]
  ELSE LET r == wifiUpsert(log, Head(networks), now)
       IN forEachWifi(r.log, Tail(networks), now, newCount + r.newCount)

\* _setupWifiHandler: the listener for messageKeys.wifi on socket s; the
\* clock reads now, not earlier than anything it stamped in this log
_setupWifiHandler(s, networks, now) ==
  /\ sockets[s].state = "open"
  /\ LET clientID == sockets[s].id
         store == logs[clientID]
         r == forEachWifi(store.wifiLog, networks, now, 0)
     IN /\ \A i \in 1..Len(store.wifiLog) : store.wifiLog[i].lastSeen <= now
        /\ IF networks = <<>>
           THEN /\ logs' = logs
                /\ lastOp' = Op("wifi", clientID, "none", EmptyPayload, "none", 0, <<>>)
           ELSE /\ logs' = [logs EXCEPT ![clientID].wifiNow = networks,
                                        ![clientID].wifiLog = r.log]
                /\ lastOp' = Op("wifi", clientID, "none", EmptyPayload,
                                ToString(r.newCount), 0, <<>>)
  /\ UNCHANGED <<clients, clientConnections, ignoreDisconnects, gpsPollers,
                 CommandQue, GPSSettings, sockets, intervals>>

\* Connections and wifi messages of the clients in C
NextWifiFor(C) ==
  \/ \E s \in SocketIds, c \in C : clientConnect(s, c)
  \/ \E s \in SocketIds, l \in Batches(Networks), now \in Times :
       _setupWifiHandler(s, l, now)

NextWifi == NextWifiFor(Driven)

SpecWifi == Init /\ [][NextWifi]_vars

\* The names an app list or a permission list is made of
SnapshotItems == {<<1>>, <<2>>}

\* The lists a client sends as data.apps or data.permissions
SnapshotLists == Batches(SnapshotItems)

\* lodash assign(target, source) on two arrays: the own enumerable keys of
\* source (its indices) are copied onto target, the other indices of target
\* stay
assign(target, source) ==
  [i \in 1..(IF Len(target) > Len(source) THEN Len(target) ELSE Len(source)) |->
     IF i <= Len(source) THEN source[i] ELSE target[i]]

\* One message of a snapshot handler on socket s:
\* client.get(collection).assign(list).write()
SnapshotMessage(op, collection, s, list) ==
  /\ sockets[s].state = "open"
  /\ LET clientID == sockets[s].id
     IN /\ logs' = [logs EXCEPT ![clientID][collection] =
                      assign(logs[clientID][collection], list)]
        /\ lastOp' = Op(op, clientID, "none", EmptyPayload, "updated", 0, <<>>)
  /\ UNCHANGED <<clients, clientConnections, ignoreDisconnects, gpsPollers,
                 CommandQue, GPSSettings, sockets, intervals>>

\* _setupPermissionsHandler: the listener for messageKeys.permissions
_setupPermissionsHandler(s, permissions) ==
  SnapshotMessage("permissions", "enabledPermissions", s, permissions)

\* _setupAppsHandler: the listener for messageKeys.installed
_setupAppsHandler(s, apps) == SnapshotMessage("installed", "apps", s, apps)

\* Connections, disconnects and snapshot messages of the clients in C
NextSnapshotFor(C) ==
  \/ \E s \in SocketIds, c \in C : clientConnect(s, c)
  \/ \E s \in SocketIds : clientDisconnect(s)
  \/ \E s \in SocketIds, l \in SnapshotLists : _setupPermissionsHandler(s, l)
  \/ \E s \in SocketIds, l \in SnapshotLists : _setupAppsHandler(s, l)

NextSnapshot == NextSnapshotFor(Driven)

SpecSnapshot == Init /\ [][NextSnapshot]_vars

\* ------------------------------------------------------------------------
\* The client record over connects, disconnects and deletions
\* ------------------------------------------------------------------------

\* Connections that bring their own clientData and clock reading,
\* disconnects and deletions of the clients in C
NextRecordFor(C) ==
  \/ \E s \in SocketIds, c \in C : clientConnectFresh(s, c)
  \/ \E s \in SocketIds : clientDisconnect(s)
  \/ \E c \in C : deleteClient(c)
  \/ \E c \in C : SendCommand(c, messageKeys.location, EmptyPayload)

NextRecord == NextRecordFor(Driven)

SpecRecord == Init /\ [][NextRecord]_vars

\* ------------------------------------------------------------------------
\* A client's stored history: record, queue, poll setting, logs, snapshots
\* ------------------------------------------------------------------------

\* The intervals the dashboard sets while the history is followed
HistoryPolls == {0, 30}

\* The app lists a client sends while the history is followed
HistoryLists == {l \in SnapshotLists : Len(l) <= 1}

\* The orders the dashboard gives while the history is followed
HistoryCommands == {messageKeys.location, messageKeys.camera}

NextHistoryFor(C) ==
  \/ \E s \in SocketIds, c \in C : clientConnectFresh(s, c)
  \/ \E s \in SocketIds : clientDisconnect(s)
  \/ \E c \in C, k \in HistoryCommands : SendCommand(c, k, EmptyPayload)
  \/ \E c \in C, p \in HistoryPolls : setGpsPollSpeed(c, p)
  \/ \E s \in SocketIds, d \in NotificationRecords : _setupNotificationHandler(s, d)
  \/ \E s \in SocketIds, l \in HistoryLists : _setupAppsHandler(s, l)

NextHistory == NextHistoryFor(Driven)

SpecHistory == Init /\ [][NextHistory]_vars

\* ------------------------------------------------------------------------
\* A client that keeps reconnecting while its queue drains
\* ------------------------------------------------------------------------

\* The dashboard gives its orders up to the client's first reconnect: none
\* is given once the second connection has been made
OrdersOpen == sockets[2].state = "unused"

\* The orders the dashboard gives: the commands that pass validation
DrainInputs == {in \in CmdInputs : _validateCommandParams(in[1], in[2]) = "false"}

\* One connection after the other of the client c
Reconnect(c) == \E s \in SocketIds : clientConnect(s, c)

NextDrainFor(C) ==
  \/ \E c \in C : Reconnect(c)
  \/ \E s \in SocketIds : clientDisconnect(s)
  \/ \E c \in C, in \in DrainInputs : OrdersOpen /\ SendCommand(c, in[1], in[2])

NextDrain == NextDrainFor(Driven)

\* The client keeps reconnecting: a connection that can be made is made
SpecDrain ==
  /\ Init
  /\ [][NextDrain]_vars
  /\ \A c \in Driven : WF_vars(Reconnect(c))

\* ------------------------------------------------------------------------
\* Two clients side by side
\* ------------------------------------------------------------------------

\* The app list either client sends
PairLists == {l \in SnapshotLists : Len(l) = 1 /\ l[1] = <<1>>}

\* The two clients connect in turn: the client of connection s
PairClient(s) == IF s % 2 = 1 THEN "a1" ELSE "a2"

\* Every kind of operation, for the clients in C
NextPairFor(C) ==
  \/ \E s \in SocketIds : PairClient(s) \in C /\ clientConnect(s, PairClient(s))
  \/ \E s \in SocketIds : clientDisconnect(s)
  \/ \E c \in C : SendCommand(c, messageKeys.location, EmptyPayload)
  \/ \E c \in C : PollTick(c)
  \/ \E c \in C : setGpsPollSpeed(c, 30)
  \/ \E c \in C : deleteClient(c)
  \/ \E s \in SocketIds, l \in PairLists : _setupAppsHandler(s, l)

NextPair == NextPairFor(ClientIDs)

SpecPair == Init /\ [][NextPair]_vars

\* ------------------------------------------------------------------------
\* _validateCommandParams as a pure function: the initial states hold every
\* command id and payload, the one action applies the validation
\* ------------------------------------------------------------------------
InitValidate ==
  /\ clients = [c \in ClientIDs |-> NoClient]
  /\ clientConnections = [c \in ClientIDs |-> 0]
  /\ ignoreDisconnects = [c \in ClientIDs |-> "none"]
  /\ gpsPollers = [c \in ClientIDs |-> 0]
  /\ CommandQue = [c \in ClientIDs |-> clientdbDefaults.CommandQue]
  /\ GPSSettings = [c \in ClientIDs |-> clientdbDefaults.updateFrequency]
  /\ sockets = [s \in SocketIds |-> NoSocket]
  /\ intervals = [c \in ClientIDs |-> <<>>]
  /\ logs = [c \in ClientIDs |-> EmptyLogs]
  /\ \E k \in AllKinds, p \in Payloads :
       lastOp = Op("input", "none", k, p, "none", 0, <<>>)

Validate ==
  /\ lastOp.op = "input"
  /\ lastOp' = Op("_validateCommandParams", "none", lastOp.kind, lastOp.payload,
                  _validateCommandParams(lastOp.kind, lastOp.payload), 0, <<>>)
  /\ UNCHANGED <<clients, clientConnections, ignoreDisconnects, gpsPollers,
                 CommandQue, GPSSettings, sockets, intervals, logs>>

NextValidate == Validate

SpecValidate == InitValidate /\ [][NextValidate]_vars

\* ------------------------------------------------------------------------
\* Properties
\* ------------------------------------------------------------------------
DuplicatePending == "A similar command has already been queued"
UnknownAgent == "Client doesn't exist!"

\* The step just taken was a sendCommand call (by the dashboard or a timer)
IsSend(o) == o.op \in {"sendCommand", "pollTick"}

\* The kinds of a sequence of queue entries or emitted orders, in order
TypesOf(q) == [i \in 1..Len(q) |-> q[i].type]

\* C1: when a client connects with K commands queued, the replay emits all K
\* on the new socket and leaves the client's queue empty.
C1_ReplayComplete ==
  [][lastOp'.op = "clientConnect" =>
       /\ CommandQue'[lastOp'.id] = <<>>
       /\ TypesOf(lastOp'.emitted) = TypesOf(CommandQue[lastOp'.id])
       /\ \A i \in 1..Len(lastOp'.emitted) :
            lastOp'.emitted[i].sock = clientConnections'[lastOp'.id]]_vars

\* Where the emitted order e stood in the queue q, 0 if nowhere
PosIn(q, e) ==
  IF \E i \in 1..Len(q) : q[i].type = e.type /\ q[i].uid = e.uid
  THEN CHOOSE i \in 1..Len(q) : q[i].type = e.type /\ q[i].uid = e.uid
  ELSE 0

\* C2: the orders one replay emits are entries of the queue as it was when
\* the client connected, and they are emitted in the order they were queued.
C2_ReplayKeepsOrder ==
  [][lastOp'.op = "clientConnect" =>
       LET q == CommandQue[lastOp'.id]
           em == lastOp'.emitted
       IN /\ \A i \in 1..Len(em) : PosIn(q, em[i]) > 0
          /\ \A i, j \in 1..Len(em) : i < j => PosIn(q, em[i]) < PosIn(q, em[j])]_vars

C2_Witness == lastOp.op = "clientConnect" /\ Len(lastOp.emitted) >= 2

\* C3: no queued command is emitted twice: an entry that has been emitted is
\* no longer in the queue (so no later replay can emit it again), and one
\* replay emits no entry more than once.
C3_NoReplayTwice ==
  /\ \A c \in ClientIDs : \A i \in 1..Len(CommandQue[c]) : CommandQue[c][i].tx = 0
  /\ lastOp.op = "clientConnect" =>
       \A i, j \in 1..Len(lastOp.emitted) :
         i # j => lastOp.emitted[i].type # lastOp.emitted[j].type

C3_Witness ==
  /\ lastOp.op = "clientConnect"
  /\ Len(lastOp.emitted) >= 1
  /\ \E s \in SocketIds : sockets[s].state = "closed"

\* C4: sendCommand with a valid command for an existing client that has no
\* connection and already has an entry of that kind queued reports the
\* duplicate error, emits nothing and leaves the queue as it was.
C4_QueueDedupe ==
  [][(/\ IsSend(lastOp')
      /\ _validateCommandParams(lastOp'.kind, lastOp'.payload) = "false"
      /\ clients[lastOp'.id].exists
      /\ clientConnections[lastOp'.id] = 0
      /\ \E i \in 1..Len(CommandQue[lastOp'.id]) :
           CommandQue[lastOp'.id][i].type = lastOp'.kind)
     => /\ lastOp'.result = DuplicatePending
        /\ lastOp'.cb = 1
        /\ lastOp'.emitted = <<>>
        /\ CommandQue' = CommandQue]_vars

C4_Witness ==
  /\ lastOp.op = "sendCommand"
  /\ lastOp.result = DuplicatePending
  /\ \E i \in 1..Len(CommandQue[lastOp.id]) : CommandQue[lastOp.id][i].type = lastOp.kind

\* C5: a client's queue never holds two entries of the same kind.
C5_OnePendingPerKind ==
  \A c \in ClientIDs : \A i, j \in 1..Len(CommandQue[c]) :
    i # j => CommandQue[c][i].type # CommandQue[c][j].type

C5_Witness ==
  /\ lastOp.op = "pollTick"
  /\ lastOp.result = DuplicatePending
  /\ Len(CommandQue[lastOp.id]) >= 2

\* C6: no two entries of one client's queue have the same uid.
C6_UidsUnique ==
  \A c \in ClientIDs : \A i, j \in 1..Len(CommandQue[c]) :
    i # j => CommandQue[c][i].uid # CommandQue[c][j].uid

\* C7: sendCommand with a valid command for an existing client that has a
\* connection emits exactly one order, carrying the command kind, on the
\* socket registered for the client, reports "Requested" and queues nothing.
C7_ImmediateDelivery ==
  [][(/\ IsSend(lastOp')
      /\ _validateCommandParams(lastOp'.kind, lastOp'.payload) = "false"
      /\ clients[lastOp'.id].exists
      /\ clientConnections[lastOp'.id] # 0)
     => /\ lastOp'.result = "Requested"
        /\ lastOp'.cb = 1
        /\ Len(lastOp'.emitted) = 1
        /\ lastOp'.emitted[1].sock = clientConnections[lastOp'.id]
        /\ lastOp'.emitted[1].type = lastOp'.kind
        /\ lastOp'.emitted[1].payload = lastOp'.payload
        /\ CommandQue' = CommandQue]_vars

C7_Witness ==
  /\ lastOp.op = "sendCommand"
  /\ lastOp.result = "Requested"
  /\ Len(lastOp.emitted) = 1

\* C8: sendCommand with a valid command for an existing client that has no
\* connection and no entry of that kind queued appends exactly one entry with
\* that kind and payload at the tail of the queue, reports "Queued" and emits
\* nothing.
C8_OfflineEnqueue ==
  [][(/\ IsSend(lastOp')
      /\ _validateCommandParams(lastOp'.kind, lastOp'.payload) = "false"
      /\ clients[lastOp'.id].exists
      /\ clientConnections[lastOp'.id] = 0
      /\ \A i \in 1..Len(CommandQue[lastOp'.id]) :
           CommandQue[lastOp'.id][i].type # lastOp'.kind)
     => LET q == CommandQue[lastOp'.id]
            q2 == CommandQue'[lastOp'.id]
        IN /\ lastOp'.result = "Queued"
           /\ lastOp'.cb = 1
           /\ lastOp'.emitted = <<>>
           /\ Len(q2) = Len(q) + 1
           /\ SubSeq(q2, 1, Len(q)) = q
           /\ q2[Len(q2)].type = lastOp'.kind
           /\ q2[Len(q2)].payload = lastOp'.payload
           /\ \A c \in ClientIDs \ {lastOp'.id} : CommandQue'[c] = CommandQue[c]]_vars

C8_Witness ==
  /\ lastOp.op = "sendCommand"
  /\ lastOp.result = "Queued"
  /\ Len(CommandQue[lastOp.id]) >= 2
  /\ CommandQue[lastOp.id][Len(CommandQue[lastOp.id])].type = lastOp.kind

\* What the validation table says about a command id and payload
TableAccepts(k, p) ==
  CASE k = messageKeys.sms ->
         \/ p.action = "ls"
         \/ p.action = "sendSMS" /\ "to" \in p.fields /\ "sms" \in p.fields
    [] k = messageKeys.files -> p.action \in {"ls", "dl"} /\ "path" \in p.fields
    [] k = messageKeys.mic -> "sec" \in p.fields
    [] k = messageKeys.gotPermission -> "permission" \in p.fields
    [] OTHER -> k \in MessageKeyValues

\* C9: the validation accepts exactly what the table accepts, for every kind
\* and every combination of payload fields, and a kind outside the catalog is
\* rejected as unknown.
C9_ValidationMatchesTable ==
  lastOp.op = "_validateCommandParams" =>
    /\ (lastOp.result = "false") <=> TableAccepts(lastOp.kind, lastOp.payload)
    /\ lastOp.kind \notin MessageKeyValues => lastOp.result = "Command ID Not Found"

\* C9, the part of the table about the kinds of the catalog
C9_CatalogKindsMatchTable ==
  (lastOp.op = "_validateCommandParams" /\ lastOp.kind \in MessageKeyValues) =>
    ((lastOp.result = "false") <=> TableAccepts(lastOp.kind, lastOp.payload))

\* C10: a sendCommand call that does not deliver or queue reports its error
\* through the callback exactly once (it does not throw), a validation error
\* comes before the unknown-client error, and the call emits nothing and
\* changes no connection, queue, client record or timer.
C10_ErrorsAreValues ==
  [][(IsSend(lastOp') /\ lastOp'.result \notin {"Requested", "Queued"})
     => /\ lastOp'.cb = 1
        /\ lastOp'.result # "THROW"
        /\ (lastOp'.result = UnknownAgent
              => _validateCommandParams(lastOp'.kind, lastOp'.payload) = "false")
        /\ lastOp'.emitted = <<>>
        /\ UNCHANGED <<clients, clientConnections, CommandQue, gpsPollers>>]_vars

\* ------------------------------------------------------------------------
\* Sessions, disconnects and the location poll timer
\* ------------------------------------------------------------------------

\* The transport connected last for clientID among socks, 0 if there is none
LatestSocket(socks, clientID) ==
  IF \E s \in SocketIds : socks[s].id = clientID
  THEN CHOOSE s \in SocketIds :
         /\ socks[s].id = clientID
         /\ \A t \in SocketIds : socks[t].id = clientID => t <= s
  ELSE 0

\* clientID has a registered connection and a record that is online
Online(clientID) ==
  /\ clientConnections[clientID] # 0
  /\ clients[clientID].exists
  /\ clients[clientID].isOnline

\* C11: an id has at most one registered connection and it is the transport
\* that connected last for the id: a connect registers its own socket in
\* place of any earlier one, and every order a step emits (a replay, a
\* dashboard send, a timer tick) goes out on the registered connection, never
\* on a superseded transport.
C11_LatestConnectionWins ==
  [][/\ \A c \in ClientIDs :
          clientConnections'[c] # 0 => clientConnections'[c] = LatestSocket(sockets', c)
     /\ lastOp'.op = "clientConnect" =>
          /\ clientConnections'[lastOp'.id] # 0
          /\ sockets[clientConnections'[lastOp'.id]].state = "unused"
          /\ sockets'[clientConnections'[lastOp'.id]] =
               [id |-> lastOp'.id, state |-> "open"]
     /\ \A i \in 1..Len(lastOp'.emitted) :
          lastOp'.emitted[i].sock = clientConnections'[lastOp'.id]]_vars

\* C11 witness: a command was sent out on the second transport of an id while
\* the first transport of that id is still open
C11_Witness ==
  /\ lastOp.op = "sendCommand"
  /\ lastOp.result = "Requested"
  /\ Len(lastOp.emitted) = 1
  /\ lastOp.emitted[1].sock = 2
  /\ sockets[1] = [id |-> lastOp.id, state |-> "open"]
  /\ sockets[2] = [id |-> lastOp.id, state |-> "open"]

\* C12: a disconnect that is not ignored leaves the client's record (if there
\* is one) offline, leaves no registered connection for the id and leaves no
\* poll timer running or registered for it.
C12_DisconnectTakesEffect ==
  [][(lastOp'.op = "clientDisconnect" /\ lastOp'.result = "disconnected") =>
       /\ clients'[lastOp'.id].exists = clients[lastOp'.id].exists
       /\ ~clients'[lastOp'.id].isOnline
       /\ clientConnections'[lastOp'.id] = 0
       /\ gpsPollers'[lastOp'.id] = 0
       /\ intervals'[lastOp'.id] = <<>>]_vars

\* C12 witness: a disconnect took effect for an existing client whose poll
\* interval is set, so a timer was there to cancel
C12_Witness ==
  /\ lastOp.op = "clientDisconnect"
  /\ lastOp.result = "disconnected"
  /\ clients[lastOp.id].exists
  /\ GPSSettings[lastOp.id] >= 30

\* C13 as stated: every connect arms the ignore flag, the first disconnect
\* after a connect is ignored (record, connection and timer untouched) and
\* clears the flag, and a disconnect with no connect since the previous
\* disconnect takes effect.
C13_EveryConnectArms ==
  [][/\ lastOp'.op = "clientConnect" => ignoreDisconnects'[lastOp'.id] = "true"
     /\ (lastOp'.op = "clientDisconnect" /\ ignoreDisconnects[lastOp'.id] # "none") =>
          /\ lastOp'.result = "ignored"
          /\ ignoreDisconnects'[lastOp'.id] = "none"
          /\ UNCHANGED <<clients, clientConnections, gpsPollers, intervals>>
     /\ (lastOp'.op = "clientDisconnect" /\ ignoreDisconnects[lastOp'.id] = "none") =>
          lastOp'.result = "disconnected"]_vars

\* C13, amended: a connect arms the ignore flag only when an entry for the id
\* is already there, that is when no disconnect was handled since the previous
\* connect of the id; otherwise it stores false. A disconnect handled while the
\* flag is armed is ignored (record, connection and timer untouched) and
\* removes the entry; any other disconnect takes effect and removes the entry,
\* so the disconnect after an ignored one takes effect unless a connect came
\* in between.
C13_FlagOneShot ==
  [][/\ lastOp'.op = "clientConnect" =>
          ignoreDisconnects'[lastOp'.id] =
            IF ignoreDisconnects[lastOp'.id] = "none" THEN "false" ELSE "true"
     /\ (lastOp'.op = "clientDisconnect" /\ ignoreDisconnects[lastOp'.id] = "true") =>
          /\ lastOp'.result = "ignored"
          /\ ignoreDisconnects'[lastOp'.id] = "none"
          /\ UNCHANGED <<clients, clientConnections, gpsPollers, intervals>>
     /\ (lastOp'.op = "clientDisconnect" /\ ignoreDisconnects[lastOp'.id] # "true") =>
          /\ lastOp'.result = "disconnected"
          /\ ignoreDisconnects'[lastOp'.id] = "none"
          /\ clientConnections'[lastOp'.id] = 0
          /\ ~clients'[lastOp'.id].isOnline
          /\ gpsPollers'[lastOp'.id] = 0
     /\ lastOp'.op \notin {"clientConnect", "clientDisconnect"} =>
          UNCHANGED ignoreDisconnects]_vars

\* C13 witness: the disconnect of a superseded transport was ignored, the
\* client is still online on the later transport and the flag is gone
C13_Witness ==
  /\ lastOp.op = "clientDisconnect"
  /\ lastOp.result = "ignored"
  /\ ignoreDisconnects[lastOp.id] = "none"
  /\ Online(lastOp.id)
  /\ sockets[clientConnections[lastOp.id]].state = "open"

\* C14: when a transport of an id disconnects after a later transport
\* connected for the same id, and that later transport is the registered
\* connection and still open, the disconnect leaves the record online, the
\* registered connection in place and the poll timer running.
C14_SupersededDisconnectIgnored ==
  [][\A s \in SocketIds :
       (/\ sockets[s].state = "open"
        /\ sockets'[s].state = "closed"
        /\ clientConnections[sockets[s].id] > s
        /\ sockets[clientConnections[sockets[s].id]].state = "open")
       => /\ lastOp'.result = "ignored"
          /\ UNCHANGED <<clients, clientConnections, gpsPollers, intervals>>]_vars

\* C15: a poll timer is live for an id only while the id has a registered
\* connection and a client record.
C15_TimerOnlyWithSession ==
  \A c \in ClientIDs :
    intervals[c] # <<>> => (clientConnections[c] # 0 /\ clients[c].exists)

\* C16: setGpsPollSpeed with an interval above 0 and below 30 hands an error
\* to the callback and leaves the stored interval, the timer registry and the
\* live timers as they were.
C16_ShortIntervalRejected ==
  [][\A c \in ClientIDs, p \in PollChoices :
       (p > 0 /\ p < 30 /\ setGpsPollSpeed(c, p))
       => /\ lastOp'.result # "false"
          /\ lastOp'.cb = 1
          /\ UNCHANGED <<GPSSettings, gpsPollers, intervals>>]_vars

\* C16 witness: an interval was refused while a timer of period 30 is running
C16_Witness ==
  /\ lastOp.op = "setGpsPollSpeed"
  /\ lastOp.result # "false"
  /\ GPSSettings[lastOp.id] = 30
  /\ intervals[lastOp.id] = <<30>>

\* C17: setGpsPollSpeed with 0 succeeds, stores 0 and leaves no timer for the
\* id; with an interval of 30 or more for a client that is online it succeeds,
\* stores the interval and leaves exactly one timer, of that period, in place
\* of whatever timer ran before.
C17_IntervalApplied ==
  [][\A c \in ClientIDs, p \in PollChoices :
       (setGpsPollSpeed(c, p) /\ (p = 0 \/ (p >= 30 /\ Online(c))))
       => /\ lastOp'.result = "false"
          /\ lastOp'.cb = 1
          /\ GPSSettings'[c] = p
          /\ gpsPollers'[c] = p
          /\ intervals'[c] = IF p = 0 THEN <<>> ELSE <<p>>]_vars

\* C17 witness: an online client was switched to the period 60 and one timer
\* of period 60 runs
C17_Witness ==
  /\ lastOp.op = "setGpsPollSpeed"
  /\ lastOp.result = "false"
  /\ Online(lastOp.id)
  /\ GPSSettings[lastOp.id] = 60
  /\ intervals[lastOp.id] = <<60>>

LogCollections == {"CallData", "SMSData", "contacts", "notificationLog"}

\* The positions of log that hold a copy of record rec
StoredCopies(log, rec) ==
  {i \in 1..Len(log) : [f \in DOMAIN rec |-> log[i][f]] = rec}

\* One handler run on list for clientID is idempotent: afterwards each record
\* of the list (as the handler stores it) has exactly one copy in the log,
\* the log is the old log followed by one entry per record that had no copy,
\* and the number logged as new is the number of those records
IdempotentStep(collection, clientID, list) ==
  LET old == logs[clientID][collection]
      new == logs'[clientID][collection]
      recs == {prepared(collection, list[i]) : i \in 1..Len(list)}
      fresh == {r \in recs : StoredCopies(old, r) = {}}
  IN /\ \A r \in recs : Cardinality(StoredCopies(new, r)) = 1
     /\ Len(new) = Len(old) + Cardinality(fresh)
     /\ SubSeq(new, 1, Len(old)) = old
     /\ lastOp'.result = ToString(Cardinality(fresh))

\* C19: for calls, SMS, contacts and notifications, a record ingested once or
\* many times, in one list or over several messages and connections, ends up
\* with exactly one stored copy: the ingestion that finds no copy appends it
\* and counts it as new, every other one is skipped and leaves the log as it
\* was.
C19_DedupeIdempotent ==
  [][/\ \A s \in SocketIds, l \in Batches(CallRecords) :
          (l # <<>> /\ _setupCallHandler(s, l))
          => IdempotentStep("CallData", sockets[s].id, l)
     /\ \A s \in SocketIds, l \in Batches(SmsRecords) :
          (l # <<>> /\ _setupSmsHandler(s, l))
          => IdempotentStep("SMSData", sockets[s].id, l)
     /\ \A s \in SocketIds, l \in Batches(ContactRecords) :
          (l # <<>> /\ _setupContactsHandler(s, l))
          => IdempotentStep("contacts", sockets[s].id, l)
     /\ \A s \in SocketIds, d \in NotificationRecords :
          _setupNotificationHandler(s, d)
          => IdempotentStep("notificationLog", sockets[s].id, <<d>>)]_vars

\* C20: in every state, in every log of every client, each entry carries the
\* hash of its own identity fields and no two entries carry the same hash.
C20_NoDuplicateKeys ==
  \A c \in ClientIDs, collection \in LogCollections :
    LET log == logs[c][collection] IN
    /\ \A i \in 1..Len(log) :
         log[i].hash = _createHash(hashInput(collection, log[i]))
    /\ \A i, j \in 1..Len(log) : i # j => log[i].hash # log[j].hash

\* C20 witness: an SMS list sent on a superseded transport (the only transport
\* still open; the registered one is the later, closed one) was skipped as
\* already stored, and the SMS log holds two entries
C20_Witness ==
  /\ lastOp.op = "sms"
  /\ lastOp.result = "0"
  /\ lastOp.id = "a1"
  /\ Len(logs["a1"].SMSData) = 2
  /\ Len(logs["a1"].contacts) = 1
  /\ sockets[1] = [id |-> "a1", state |-> "open"]
  /\ sockets[2] = [id |-> "a1", state |-> "closed"]
  /\ clientConnections["a1"] = 2

\* The (address, body) pairs of a list of SMS records
SmsIdentities(list) == {<<list[i].address, list[i].body>> : i \in 1..Len(list)}

\* C21: after a client pushes a list of SMS records, the sms page returns as
\* many records as there are distinct (address, body) pairs among the records
\* stored before and the records of the list: records that differ in address
\* or body are never collapsed into one.
C21_DistinctSmsKept ==
  [][\A s \in SocketIds, l \in Batches(SmsPairs) :
       (l # <<>> /\ _setupSmsHandler(s, l) /\ clients[sockets[s].id].exists)
       => LET c == sockets[s].id
              before == getClientDataByPage(clients[c], logs[c], "sms")
              after == getClientDataByPage(clients'[c], logs'[c], "sms")
          IN /\ after.found
             /\ Len(after.data) =
                  Cardinality(SmsIdentities(before.data) \cup SmsIdentities(l))]_vars

\* C22: when a list of calls or contacts holds a malformed record, every
\* well-formed record of the list is in the log after the handler has run
\* (appended by it unless it was stored already), and the socket stays open
\* and registered.
C22_BadRecordKeepsRest ==
  [][/\ \A s \in SocketIds, l \in Batches(ContactInputs) :
          (l # <<>> /\ _setupContactsHandler(s, l))
          => /\ \A i \in 1..Len(l) :
                  ~throws("contacts", l[i]) =>
                    findHash(logs'[sockets[s].id].contacts,
                             _createHash(hashInput("contacts", prepared("contacts", l[i]))))
             /\ UNCHANGED <<sockets, clientConnections, clients>>
     /\ \A s \in SocketIds, l \in Batches(CallInputs) :
          (l # <<>> /\ _setupCallHandler(s, l))
          => /\ \A i \in 1..Len(l) :
                  ~throws("CallData", l[i]) =>
                    findHash(logs'[sockets[s].id].CallData,
                             _createHash(hashInput("CallData", l[i])))
             /\ UNCHANGED <<sockets, clientConnections, clients>>]_vars

\* The positions of a wifi log that hold the network wifi
WifiEntries(log, wifi) ==
  {i \in 1..Len(log) : log[i].SSID = wifi.SSID /\ log[i].BSSID = wifi.BSSID}

\* C23: a wifi message at clock reading now (its list is what the handler
\* leaves in wifiNow) leaves, for every network of its list that was in the log, the same entry with lastSeen = now and firstSeen
\* as before, and for every network that was not in the log exactly one new
\* entry with firstSeen = lastSeen = now; the log grows by the number of new
\* networks only, its other entries stay as they were, and it never holds
\* two entries with the same (SSID, BSSID).
C23_WifiUpsert ==
  [][(lastOp'.op = "wifi" /\ lastOp'.result # "none") =>
       LET l == logs'[lastOp'.id].wifiNow IN
       \A s \in SocketIds, now \in Times :
         (/\ sockets[s].state = "open"
          /\ sockets[s].id = lastOp'.id
          /\ \A t \in SocketIds : (t < s /\ sockets[t].state = "open") =>
                sockets[t].id # lastOp'.id
          /\ \E i \in 1..Len(logs'[lastOp'.id].wifiLog) :
               logs'[lastOp'.id].wifiLog[i].lastSeen = now
          /\ _setupWifiHandler(s, l, now))
         => LET old == logs[sockets[s].id].wifiLog
                new == logs'[sockets[s].id].wifiLog
                seen == {l[i] : i \in 1..Len(l)}
                fresh == {w \in seen : WifiEntries(old, w) = {}}
            IN /\ l \in Batches(Networks) /\ l # <<>>
               /\ Len(new) = Len(old) + Cardinality(fresh)
               /\ lastOp'.result = ToString(Cardinality(fresh))
               /\ \A w \in seen : Cardinality(WifiEntries(new, w)) = 1
               /\ \A w \in fresh : \A i \in WifiEntries(new, w) :
                    i > Len(old) /\ new[i].firstSeen = now /\ new[i].lastSeen = now
               /\ \A i \in 1..Len(old) :
                    IF \E w \in seen : i \in WifiEntries(old, w)
                    THEN new[i] = [old[i] EXCEPT !.lastSeen = now]
                    ELSE new[i] = old[i]
               /\ \A i, j \in 1..Len(new) :
                    (new[i].SSID = new[j].SSID /\ new[i].BSSID = new[j].BSSID) => i = j]_vars

\* C23 witness: a network first seen at reading 1 was seen again at reading
\* 2, next to a network first seen at reading 2
C23_Witness ==
  /\ lastOp.op = "wifi"
  /\ lastOp.result = "1"
  /\ Len(logs["a1"].wifiLog) = 2
  /\ logs["a1"].wifiLog[1].firstSeen = 1
  /\ logs["a1"].wifiLog[1].lastSeen = 2
  /\ logs["a1"].wifiLog[2].firstSeen = 2

\* C24: after a permissions or an apps message with list L the page of that
\* snapshot returns exactly L, whatever was stored before.
C24_SnapshotReplaced ==
  [][/\ \A s \in SocketIds, l \in SnapshotLists :
          (_setupAppsHandler(s, l) /\ clients[sockets[s].id].exists)
          => getClientDataByPage(clients'[sockets[s].id], logs'[sockets[s].id],
                                 "apps").data = l
     /\ \A s \in SocketIds, l \in SnapshotLists :
          (_setupPermissionsHandler(s, l) /\ clients[sockets[s].id].exists)
          => getClientDataByPage(clients'[sockets[s].id], logs'[sockets[s].id],
                                 "permissions").data = l]_vars

\* The connect step just taken was for an id that had connected before
LaterConnect ==
  /\ lastOp'.op = "clientConnect"
  /\ \E t \in SocketIds : sockets[t].state # "unused" /\ sockets[t].id = lastOp'.id

\* C26 as stated: every connect after the first one for an id creates no
\* further record and leaves firstSeen unchanged.
C26_LaterConnectKeepsFirstSeen ==
  [][LaterConnect =>
       /\ clients'[lastOp'.id].records = clients[lastOp'.id].records
       /\ clients'[lastOp'.id].firstSeen = clients[lastOp'.id].firstSeen]_vars

\* C26 amended: a connect that finds no record for the id (the first
\* connect, or the first one after deleteClient removed the record) creates
\* exactly one record with firstSeen set to the time of that connect,
\* isOnline true and the connection's metadata; a connect that finds the
\* record creates none, leaves firstSeen unchanged and sets isOnline true
\* and dynamicData to the new metadata; no id ever has two records.
C26_OneRecordPerId ==
  [][/\ lastOp'.op = "clientConnect" =>
          LET c == lastOp'.id
              s == clientConnections'[c]
          IN IF ~clients[c].exists
             THEN clients'[c] = [exists |-> TRUE, isOnline |-> TRUE,
                                 firstSeen |-> connectTime(s),
                                 dynamicData |-> clientDataOf(s), records |-> 1]
             ELSE /\ clients'[c].exists
                  /\ clients'[c].records = clients[c].records
                  /\ clients'[c].firstSeen = clients[c].firstSeen
                  /\ clients'[c].isOnline
                  /\ clients'[c].dynamicData = clientDataOf(s)
     /\ \A c \in ClientIDs :
          /\ clients'[c].records <= 1
          /\ clients'[c].exists <=> clients'[c].records = 1]_vars

\* C26 witness: a second connection has just been accepted for a client
\* whose record dates from the first one
C26_Witness ==
  /\ lastOp.op = "clientConnect"
  /\ clientConnections["a1"] = 2
  /\ clients["a1"].exists
  /\ clients["a1"].records = 1
  /\ clients["a1"].firstSeen = connectTime(1)
  /\ clients["a1"].dynamicData = clientDataOf(2)

\* C25: a disconnect, suppressed or not, leaves the client's record present
\* with its firstSeen, and leaves the client's command queue, logs,
\* snapshots and GPSSettings exactly as they were.
C25_DisconnectKeepsHistory ==
  [][lastOp'.op = "clientDisconnect" =>
       LET c == lastOp'.id IN
       /\ clients[c].exists =>
            /\ clients'[c].exists
            /\ clients'[c].records = clients[c].records
            /\ clients'[c].firstSeen = clients[c].firstSeen
            /\ clients'[c].dynamicData = clients[c].dynamicData
       /\ CommandQue'[c] = CommandQue[c]
       /\ logs'[c] = logs[c]
       /\ GPSSettings'[c] = GPSSettings[c]]_vars

\* C25 witness: a disconnect that took effect on a client with a record from
\* its first connection, an order still queued, a logged notification, an
\* apps snapshot and a poll interval of 30
C25_Witness ==
  /\ lastOp.op = "clientDisconnect"
  /\ lastOp.result = "disconnected"
  /\ clients["a1"].exists
  /\ ~clients["a1"].isOnline
  /\ clients["a1"].firstSeen = connectTime(1)
  /\ CommandQue["a1"] # <<>>
  /\ logs["a1"].notificationLog # <<>>
  /\ logs["a1"].apps # <<>>
  /\ GPSSettings["a1"] = 30

\* The suppressed case of C25: the disconnect of a superseded socket was
\* ignored for a client with a logged notification
C25_SuppressedSeen ==
  /\ lastOp.op = "clientDisconnect"
  /\ lastOp.result = "ignored"
  /\ logs["a1"].notificationLog # <<>>

\* C27: an operation addressed to one client (connect, disconnect,
\* sendCommand, a telemetry message, a poll tick, setGpsPollSpeed,
\* deleteClient) leaves the connection entry, the ignore flag, the poll
\* timer, the record, the queue, the poll setting, the logs and the
\* snapshots of every other client unchanged.
C27_ClientsIndependent ==
  [][\A b \in ClientIDs :
       b # lastOp'.id =>
         /\ clientConnections'[b] = clientConnections[b]
         /\ ignoreDisconnects'[b] = ignoreDisconnects[b]
         /\ gpsPollers'[b] = gpsPollers[b]
         /\ intervals'[b] = intervals[b]
         /\ clients'[b] = clients[b]
         /\ CommandQue'[b] = CommandQue[b]
         /\ GPSSettings'[b] = GPSSettings[b]
         /\ logs'[b] = logs[b]
         /\ \A s \in SocketIds : sockets[s].id = b => sockets'[s] = sockets[s]]_vars

\* C27 witness: one client has just been deleted while the other is online
\* with a running poll timer and a stored apps snapshot
C27_Witness ==
  /\ lastOp.op = "deleteClient"
  /\ lastOp.id = "a1"
  /\ clients["a2"].exists
  /\ clients["a2"].isOnline
  /\ clientConnections["a2"] = 2
  /\ intervals["a2"] = <<30>>
  /\ logs["a2"].apps # <<>>

\* The other operations of C27 with the same bystander: a poll tick of one
\* client queued an order while the other holds a queued order of its own
C27_TickSeen ==
  /\ lastOp.op = "pollTick"
  /\ lastOp.id = "a1"
  /\ lastOp.result = "Queued"
  /\ CommandQue["a2"] # <<>>

\* The telemetry steps of the history specification
TelemetryOps == {"notification", "installed"}

\* C28: a connect registers the new socket as the client's connection, then
\* replays the queue (on that socket), then restarts the poll timer from the
\* stored setting, and only then attaches the telemetry handlers: when the
\* connect has returned the new socket is the registered one, the queued
\* orders have gone out on it and have left the queue, the one live timer
\* has the stored period, and a telemetry message is handled only for a
\* socket whose connect has returned.
C28_ConnectOrder ==
  [][/\ lastOp'.op = "clientConnect" =>
          LET c == lastOp'.id
              s == clientConnections'[c]
              replay == _processCommandQueue(TRUE, s, CommandQue[c])
          IN /\ s # 0
             /\ sockets[s].state = "unused"
             /\ sockets'[s] = [id |-> c, state |-> "open"]
             /\ lastOp'.emitted = replay.emitted
             /\ \A i \in 1..Len(lastOp'.emitted) : lastOp'.emitted[i].sock = s
             /\ CommandQue[c] # <<>> =>
                  /\ lastOp'.emitted # <<>>
                  /\ lastOp'.emitted[1].uid = CommandQue[c][1].uid
                  /\ Len(CommandQue'[c]) < Len(CommandQue[c])
             /\ CommandQue'[c] = replay.que
             /\ gpsPollers'[c] = GPSSettings[c]
             /\ intervals'[c] = IF GPSSettings[c] > 0 THEN <<GPSSettings[c]>> ELSE <<>>
             /\ logs'[c] = logs[c]
     /\ lastOp'.op \in TelemetryOps =>
          \E s \in SocketIds : sockets[s] = [id |-> lastOp'.id, state |-> "open"]]_vars

\* C28 witness: the second connection of a client has replayed a queued
\* order on the new socket and left the timer running at the stored period
C28_Witness ==
  /\ lastOp.op = "clientConnect"
  /\ clientConnections["a1"] = 2
  /\ lastOp.emitted # <<>>
  /\ lastOp.emitted[1].sock = 2
  /\ intervals["a1"] = <<30>>

\* A telemetry message handled after the replay of its connection
C28_TelemetrySeen ==
  /\ lastOp.op \in TelemetryOps
  /\ clientConnections["a1"] = 2
  /\ CommandQue["a1"] # <<>>

\* C29: in every reachable state each client has at most one live poll
\* timer, and a live timer is the one the gpsPollers registry holds for its
\* client; a client without a registry entry has no live timer.
C29_NoLeakedTimers ==
  \A c \in ClientIDs :
    /\ Len(intervals[c]) <= 1
    /\ intervals[c] = IF gpsPollers[c] = 0 THEN <<>> ELSE <<gpsPollers[c]>>

\* C29 witness: after a disconnect, a reconnect on a third socket and a
\* change of period, the one live timer is the registered one of period 60
C29_Witness ==
  /\ clientConnections["a1"] = 3
  /\ sockets[1].state = "closed"
  /\ GPSSettings["a1"] = 60
  /\ gpsPollers["a1"] = 60
  /\ intervals["a1"] = <<60>>

\* The client has no record: getClient answers false and no list names it
Unknown(cls, c) ==
  /\ ~getClient(cls, c).found
  /\ c \notin getClientList(cls)
  /\ c \notin getClientListOnline(cls)
  /\ c \notin getClientListOffline(cls)

\* C30: deleteClient removes the record, the connection entry and the poll
\* timer of the id in one step: right after it getClient answers false, no
\* list names the id and no timer runs for it; and for as long as the id has
\* not connected again it stays unknown and without a connection entry, and
\* a sendCommand with a valid command fails with "Client doesn't exist!",
\* emitting nothing and queueing nothing.
C30_DeleteClient ==
  [][/\ lastOp'.op = "deleteClient" =>
          LET c == lastOp'.id IN
          /\ Unknown(clients', c)
          /\ clientConnections'[c] = 0
          /\ gpsPollers'[c] = 0
          /\ intervals'[c] = <<>>
     /\ \A c \in ClientIDs :
          (Unknown(clients, c) /\ ~(lastOp'.op = "clientConnect" /\ lastOp'.id = c))
          => /\ Unknown(clients', c)
             /\ clientConnections'[c] = 0
     /\ (/\ lastOp'.op = "sendCommand"
         /\ Unknown(clients, lastOp'.id)
         /\ _validateCommandParams(lastOp'.kind, lastOp'.payload) = "false")
        => /\ lastOp'.result = "Client doesn't exist!"
           /\ lastOp'.cb = 1
           /\ lastOp'.emitted = <<>>
           /\ CommandQue' = CommandQue]_vars

\* C30 witness: a client that was online with a running timer and had its
\* socket still open was deleted, and a location order for it was refused
C30_Witness ==
  /\ lastOp.op = "sendCommand"
  /\ lastOp.kind = messageKeys.location
  /\ lastOp.result = "Client doesn't exist!"
  /\ sockets[1] = [id |-> "a1", state |-> "open"]
  /\ GPSSettings["a1"] = 30
  /\ Unknown(clients, "a1")
  /\ intervals["a1"] = <<>>

\* The clients that have an entry in the clientConnections map
Registered == {c \in ClientIDs : clientConnections[c] # 0}

\* C31: a client record has isOnline true exactly when clientConnections
\* holds an entry for its id: getClientListOnline is the set of clients
\* with an entry, and getClientListOnline and getClientListOffline split
\* getClientList between them.
C31_RegistryMatchesStore ==
  /\ \A c \in ClientIDs :
       clients[c].exists => (clients[c].isOnline <=> clientConnections[c] # 0)
  /\ getClientListOnline(clients) = Registered
  /\ getClientListOnline(clients) \cup getClientListOffline(clients)
       = getClientList(clients)
  /\ getClientListOnline(clients) \cap getClientListOffline(clients) = {}

\* C31 witness: after a reconnect, a disconnect that took effect left the
\* record offline and the map without entry while a socket is still open
C31_Witness ==
  /\ lastOp.op = "clientDisconnect"
  /\ lastOp.result = "disconnected"
  /\ clients["a1"].exists
  /\ ~clients["a1"].isOnline
  /\ "a1" \in getClientListOffline(clients)
  /\ clientConnections["a1"] = 0
  /\ \E s \in SocketIds : sockets[s] = [id |-> "a1", state |-> "open"]

\* Every transport that ever connected for the client has disconnected
AllDisconnected(c) ==
  /\ LatestSocket(sockets, c) # 0
  /\ \A t \in SocketIds : sockets[t].id = c => sockets[t].state = "closed"

\* Once every transport of a client has disconnected, its record is offline
\* and the map holds no entry for it
OfflineWhenAllDisconnected ==
  \A c \in ClientIDs :
    (AllDisconnected(c) /\ clients[c].exists)
    => (~clients[c].isOnline /\ clientConnections[c] = 0)

\* C32: while the transport that connected last for a client is still open
\* and the client's record has not been deleted, the record is online and
\* the map holds that transport, whatever disconnects of earlier transports
\* have been handled; and once every transport has disconnected the record
\* is offline and the map holds no entry.
C32_LiveTransportKept ==
  /\ \A c \in ClientIDs :
       (/\ LatestSocket(sockets, c) # 0
        /\ sockets[LatestSocket(sockets, c)].state = "open"
        /\ clients[c].exists)
       => (/\ clients[c].isOnline
           /\ clientConnections[c] = LatestSocket(sockets, c))
  /\ OfflineWhenAllDisconnected

\* Entry e of a queue is still in the queue q
StillQueued(q, e) == \E k \in 1..Len(q) : q[k].uid = e.uid /\ q[k].type = e.type

\* The step just taken put entry e on a socket of client c
TransmittedNow(c, e) ==
  /\ lastOp'.id = c
  /\ \E j \in 1..Len(lastOp'.emitted) :
       /\ lastOp'.emitted[j].uid = e.uid
       /\ lastOp'.emitted[j].type = e.type

\* The entries of q carry pairwise different uids
DistinctUids(q) == \A i, j \in 1..Len(q) : q[i].uid = q[j].uid => i = j

\* C33: an entry leaves a client's queue only in a step that transmits that
\* same entry: never through the sending of another entry, a disconnect or
\* a send that failed.
C33_NoEntryLost ==
  [][\A c \in ClientIDs : \A i \in 1..Len(CommandQue[c]) :
       ~StillQueued(CommandQue'[c], CommandQue[c][i])
       => TransmittedNow(c, CommandQue[c][i])]_vars

\* The same for the queues whose entries drew pairwise different uids
NoEntryLostDistinctUids ==
  [][\A c \in ClientIDs : \A i \in 1..Len(CommandQue[c]) :
       (DistinctUids(CommandQue[c]) /\ ~StillQueued(CommandQue'[c], CommandQue[c][i]))
       => TransmittedNow(c, CommandQue[c][i])]_vars

\* The entries a queue can hold while the queue drains
DrainEntries == [uid : UidRange, type : {in[1] : in \in DrainInputs}]

\* Entry e is pending in the queue of client c
Pending(c, e) ==
  /\ clients[c].exists
  /\ \E k \in 1..Len(CommandQue[c]) :
       CommandQue[c][k].uid = e.uid /\ CommandQue[c][k].type = e.type

\* The step that led to this state put entry e on a socket of client c
Delivered(c, e) ==
  /\ lastOp.id = c
  /\ \E j \in 1..Len(lastOp.emitted) :
       lastOp.emitted[j].uid = e.uid /\ lastOp.emitted[j].type = e.type

\* C34: when a client with a record has pending queue entries, no further
\* orders are queued and the client keeps reconnecting, its queue is
\* eventually empty and every entry that was pending is eventually
\* transmitted.
C34_QueueDelivered ==
  /\ \A c \in Driven :
       (clients[c].exists /\ CommandQue[c] # <<>>) ~> (CommandQue[c] = <<>>)
  /\ \A c \in Driven : \A e \in DrainEntries : Pending(c, e) ~> Delivered(c, e)

\* The queue of a reconnecting client is eventually empty
QueueEventuallyEmpty ==
  \A c \in Driven :
    (clients[c].exists /\ CommandQue[c] # <<>>) ~> (CommandQue[c] = <<>>)

\* A pending entry of a queue with pairwise different uids is eventually
\* transmitted
DeliveredDistinctUids ==
  \A c \in Driven : \A e \in DrainEntries :
    (Pending(c, e) /\ DistinctUids(CommandQue[c]) /\ ~OrdersOpen) ~> Delivered(c, e)

====
